---- MODULE Spec2Model ----
(***************************************************************************)
(* SharedObjectLoader (win_shared_object_loader.h): a wrapper around the   *)
(* Windows loader.  The process state is the DLL search directory and the  *)
(* thread's last-error value; the program state is the set of wrapper      *)
(* objects and the HMODULE each one holds.                                 *)
(*                                                                         *)
(* Spec     : wrapper operations issued one at a time (serial callers).    *)
(* SpecConc : two constructor calls interleaved at OS-call granularity.    *)
(***************************************************************************)
EXTENDS Integers, Sequences, FiniteSets, TLC

\* ------------------------------------------------------------------ bounds
MaxLen == 3
MaxWrappers == 2
MaxConstructs == 2
MaxCopies == 1
MaxConcLen == 2

\* ------------------------------------------------------------- vocabulary
kPathSeparator == "\\"

Chars == {kPathSeparator, "a"}

PathsUpTo(n) == UNION {[1..k -> Chars] : k \in 0..n}

Paths == PathsUpTo(MaxLen)

\* The search directory when SetDllDirectory was never called (or was called
\* with NULL): a value no path equals.
NullDir == <<"NULL">>

\* Search directories the application may have configured before the first
\* loader is constructed.
InitDirs == {NullDir, <<>>, <<"d">>}

WrapperIds == 1..MaxWrappers

Symbols == {"CreatePluginEngine", "missing"}

Exports == {"CreatePluginEngine"}

VARIABLES
    dllDir,         \* process-wide DLL search directory
    lastError,      \* GetLastError() value of the (single) calling thread
    alive,          \* wrapper objects that exist
    shared_object,  \* HMODULE member of each wrapper; 0 is the null handle
    freeCalls,      \* freeCalls[h]: number of FreeLibrary(h) calls so far
    staleUse,       \* a released handle was passed to FreeLibrary/GetProcAddress
    nConstructs,    \* constructor calls so far (also issues the handle values)
    loaded,         \* handles returned by successful LoadLibrary calls
    nCopies,        \* implicit copy operations so far
    exclSets,       \* SetDllDirectory("") calls issued by ExcludeCurrentDirectory
    initDir,        \* the search directory the process started with
    lastOp,         \* record of the last operation: its inputs and observations
    \* -- SpecConc only
    serialized,     \* callers serialize construction
    tpc,            \* position of each constructing thread
    tpath,          \* pluginName of each constructing thread
    tlen,           \* nBufferLength / GetDllDirectory(0, NULL) result per thread
    told,           \* oldDir per thread
    texpect,        \* search directory a thread left in place for its load
    badLoad         \* a load ran while the directory was not the one left for it

vars == <<dllDir, lastError, alive, shared_object, freeCalls, staleUse,
          nConstructs, loaded, nCopies, exclSets, initDir, lastOp,
          serialized, tpc, tpath, tlen, told, texpect, badLoad>>

progVars == <<alive, shared_object, freeCalls, staleUse, nConstructs, loaded,
              nCopies, exclSets, lastOp>>

concVars == <<serialized, tpc, tpath, tlen, told, texpect, badLoad>>

\* ------------------------------------------------------------ OS primitives
\* GetDllDirectory(0, NULL): the buffer is too small, so the call returns the
\* size the buffer needs, terminating null included.  An unset directory and
\* the empty directory are not distinguished.
GetDllDirectoryLen(dir) ==
    IF dir = NullDir THEN 1 ELSE Len(dir) + 1

\* GetDllDirectory(n, buf) followed by reading buf as a C string: the
\* directory when the buffer can hold it with its terminator, else "".
GetDllDirectoryBuf(n, dir) ==
    IF dir # NullDir /\ n > Len(dir) THEN dir ELSE <<>>

\* Last-error values a successful SetDllDirectory call may leave behind: Win32
\* lets a succeeding call keep the previous value or reset it to 0.
SetDllDirectoryLastError(err) == {err, 0}

\* Error codes of a failed LoadLibrary (ERROR_FILE_NOT_FOUND, ERROR_MOD_NOT_FOUND).
LoadErrCodes == {2, 126}

\* LoadLibrary(path): the outcomes the OS may produce.  h is the handle value
\* a successful load returns; a failed load returns 0 and sets the last error.
LoadLibrary(path, h, err) ==
    {[handle |-> 0, err |-> e] : e \in LoadErrCodes}
        \cup (IF path # <<>> THEN {[handle |-> h, err |-> err]} ELSE {})

\* GetProcAddress(h, name): 0 is the null address, 1 the address of an export.
\* On a released handle the result is whatever the OS happens to do.
GetProcAddress(h, name, released) ==
    IF released THEN {0, 1}
    ELSE IF name \in Exports THEN {1} ELSE {0}

\* ------------------------------------------------------------ path helpers
\* strchr(path, c): index of the first c in path, 0 for nullptr.
strchr(path, c) ==
    IF \E i \in 1..Len(path) : path[i] = c
    THEN CHOOSE i \in 1..Len(path) :
            path[i] = c /\ \A j \in 1..(i - 1) : path[j] # c
    ELSE 0

\* wcsrchr(path, c): index of the last c in path, 0 for nullptr.
wcsrchr(path, c) ==
    IF \E i \in 1..Len(path) : path[i] = c
    THEN CHOOSE i \in 1..Len(path) :
            path[i] = c /\ \A j \in (i + 1)..Len(path) : path[j] # c
    ELSE 0

FindLastPathSeparatorA(path) == strchr(path, kPathSeparator)

FindLastPathSeparatorW(path) == wcsrchr(path, kPathSeparator)

GetDirnameA(path) ==
    LET pos == FindLastPathSeparatorA(path)
    IN  IF pos = 0 THEN path ELSE SubSeq(path, 1, pos - 1)

GetDirnameW(path) ==
    LET pos == FindLastPathSeparatorW(path)
    IN  IF pos = 0 THEN path ELSE SubSeq(path, 1, pos - 1)

\* ----------------------------------------------------- constructor's steps
ExcludeNeeded_Le2(len) == len <= 2

\* The test of ExcludeCurrentDirectory on the GetDllDirectory(0, NULL) result.
ExcludeNeeded(len) == len <= 1

\* The search directory after ExcludeCurrentDirectory().
ExcludeCurrentDirectory(dir) ==
    IF ExcludeNeeded(GetDllDirectoryLen(dir)) THEN <<>> ELSE dir

\* The directory SetDllDirectory(dirname) leaves, skipped for an empty dirname.
InstallDirname(dirname, dir) ==
    IF dirname # <<>> THEN dirname ELSE dir

IncludePluginDirectoryA_ReadAfterSet(path, dir) ==
    LET newDir == InstallDirname(GetDirnameA(path), dir)
    IN  [oldDir |-> GetDllDirectoryBuf(GetDllDirectoryLen(newDir), newDir),
         newDir |-> newDir]

\* IncludePluginDirectoryA: oldDir is the returned string, newDir the search
\* directory the call leaves.
IncludePluginDirectoryA(path, dir) ==
    [oldDir |-> GetDllDirectoryBuf(GetDllDirectoryLen(dir), dir),
     newDir |-> InstallDirname(GetDirnameA(path), dir)]

IncludePluginDirectoryW(path, dir) ==
    [oldDir |-> GetDllDirectoryBuf(GetDllDirectoryLen(dir), dir),
     newDir |-> InstallDirname(GetDirnameW(path), dir)]

RestoredDirectory_NullWhenEmpty(oldDir, cur) ==
    IF oldDir = <<>> THEN NullDir ELSE oldDir

RestoredDirectory_Skipped(oldDir, cur) == cur

\* SetDllDirectory(oldDir.c_str()) after the load: cur is the directory in
\* effect before the call.
RestoredDirectory(oldDir, cur) == oldDir

ConstructCompletes_NoThrow(h) == TRUE

\* The constructor returns normally unless `if (!shared_object)` throws.
ConstructCompletes(h) == h # 0

CopiedHandle_Null(h) == 0

\* The implicit copy operations copy the HMODULE member.
CopiedHandle(h) == h

GetSymbolOutcome_NoNullCheck(h, procAddr) ==
    IF h = 0 THEN "LookupError" ELSE "Address"

\* get_symbol's result for handle h when GetProcAddress returned procAddr.
GetSymbolOutcome(h, procAddr) ==
    IF h = 0 THEN "LookupError"
    ELSE IF procAddr = 0 THEN "SymbolNotFound"
    ELSE "Address"

\* ------------------------------------------------------------- operations
NoOp ==
    [op |-> "none", w |-> 0, wide |-> FALSE, path |-> <<>>, name |-> "",
     dirBefore |-> <<>>, exclSet |-> FALSE, dirExcl |-> <<>>, oldDir |-> <<>>,
     loadDir |-> <<>>, handle |-> 0, osErr |-> 0, code |-> 0, threw |-> FALSE,
     called |-> FALSE, addr |-> 0, outcome |-> ""]

Released(h) == h # 0 /\ freeCalls[h] > 0

Init ==
    /\ dllDir \in InitDirs
    /\ initDir = dllDir
    /\ lastError = 0
    /\ alive = {}
    /\ shared_object = [w \in WrapperIds |-> 0]
    /\ freeCalls = [h \in 0..MaxConstructs |-> 0]
    /\ staleUse = FALSE
    /\ nConstructs = 0
    /\ loaded = {}
    /\ nCopies = 0
    /\ exclSets = 0
    /\ lastOp = NoOp
    /\ serialized = TRUE
    /\ tpc = <<"done", "done">>
    /\ tpath = <<<<>>, <<>>>>
    /\ tlen = <<0, 0>>
    /\ told = <<<<>>, <<>>>>
    /\ texpect = <<<<>>, <<>>>>
    /\ badLoad = FALSE

\* explicit SharedObjectLoader(LPCSTR / LPCWSTR pluginName), building wrapper w.
Construct(w, wide, path) ==
    /\ w \notin alive
    /\ nConstructs < MaxConstructs
    /\ LET exclSet == ExcludeNeeded(GetDllDirectoryLen(dllDir))
           dirExcl == ExcludeCurrentDirectory(dllDir)
           inc     == IF wide THEN IncludePluginDirectoryW(path, dirExcl)
                              ELSE IncludePluginDirectoryA(path, dirExcl)
       IN  \E res \in LoadLibrary(path, nConstructs + 1, lastError) :
           \E errNow \in SetDllDirectoryLastError(res.err) :
              LET completes == ConstructCompletes(res.handle)
              IN  /\ dllDir' = RestoredDirectory(inc.oldDir, inc.newDir)
                  /\ lastError' = errNow
                  /\ shared_object' = [shared_object EXCEPT ![w] = res.handle]
                  /\ alive' = IF completes THEN alive \cup {w} ELSE alive
                  /\ nConstructs' = nConstructs + 1
                  /\ loaded' = IF res.handle # 0 THEN loaded \cup {res.handle} ELSE loaded
                  /\ exclSets' = IF exclSet THEN exclSets + 1 ELSE exclSets
                  /\ lastOp' = [NoOp EXCEPT
                                  !.op = "Construct", !.w = w, !.wide = wide,
                                  !.path = path, !.dirBefore = dllDir,
                                  !.exclSet = exclSet, !.dirExcl = dirExcl,
                                  !.oldDir = inc.oldDir, !.loadDir = inc.newDir,
                                  !.handle = res.handle, !.osErr = res.err,
                                  !.code = IF completes THEN 0 ELSE errNow,
                                  !.threw = ~completes]
    /\ UNCHANGED <<freeCalls, staleUse, nCopies, initDir>>
    /\ UNCHANGED concVars

\* Implicit copy constructor: wrapper dst is built as a copy of wrapper src.
CopyConstruct(src, dst) ==
    /\ src \in alive
    /\ dst \notin alive
    /\ nCopies < MaxCopies
    /\ alive' = alive \cup {dst}
    /\ shared_object' = [shared_object EXCEPT ![dst] = CopiedHandle(shared_object[src])]
    /\ nCopies' = nCopies + 1
    /\ lastOp' = [NoOp EXCEPT !.op = "CopyConstruct", !.w = dst,
                              !.handle = shared_object[src]]
    /\ UNCHANGED <<dllDir, lastError, freeCalls, staleUse, nConstructs, loaded,
                   exclSets, initDir>>
    /\ UNCHANGED concVars

\* Implicit copy assignment: dst = src.
CopyAssign(src, dst) ==
    /\ src \in alive
    /\ dst \in alive
    /\ src # dst
    /\ nCopies < MaxCopies
    /\ shared_object' = [shared_object EXCEPT ![dst] = CopiedHandle(shared_object[src])]
    /\ nCopies' = nCopies + 1
    /\ lastOp' = [NoOp EXCEPT !.op = "CopyAssign", !.w = dst,
                              !.handle = shared_object[src]]
    /\ UNCHANGED <<dllDir, lastError, alive, freeCalls, staleUse, nConstructs,
                   loaded, exclSets, initDir>>
    /\ UNCHANGED concVars

\* ~SharedObjectLoader(): FreeLibrary(shared_object).
Destroy(w) ==
    /\ w \in alive
    /\ LET h == shared_object[w]
       IN  /\ freeCalls' = [freeCalls EXCEPT ![h] = @ + 1]
           /\ staleUse' = (staleUse \/ Released(h))
           /\ lastOp' = [NoOp EXCEPT !.op = "Destroy", !.w = w, !.handle = h]
    /\ alive' = alive \ {w}
    /\ UNCHANGED <<dllDir, lastError, shared_object, nConstructs, loaded,
                   nCopies, exclSets, initDir>>
    /\ UNCHANGED concVars

\* get_symbol(symbolName) on wrapper w.
get_symbol(w, name) ==
    /\ w \in alive
    /\ LET h == shared_object[w]
       IN  IF h = 0
           THEN /\ lastOp' = [NoOp EXCEPT !.op = "get_symbol", !.w = w,
                                !.name = name, !.handle = h,
                                !.outcome = GetSymbolOutcome(h, 0)]
                /\ UNCHANGED <<lastError, staleUse>>
           ELSE \E procAddr \in GetProcAddress(h, name, Released(h)) :
                  LET err == IF procAddr = 0 THEN 127 ELSE lastError
                      outcome == GetSymbolOutcome(h, procAddr)
                  IN  /\ lastError' = err
                      /\ staleUse' = (staleUse \/ Released(h))
                      /\ lastOp' = [NoOp EXCEPT !.op = "get_symbol", !.w = w,
                                      !.name = name, !.handle = h,
                                      !.called = TRUE, !.addr = procAddr,
                                      !.osErr = err, !.outcome = outcome,
                                      !.code = IF outcome = "SymbolNotFound"
                                               THEN err ELSE 0]
    /\ UNCHANGED <<dllDir, alive, shared_object, freeCalls, nConstructs, loaded,
                   nCopies, exclSets, initDir>>
    /\ UNCHANGED concVars

Next ==
    \/ \E w \in WrapperIds, wide \in BOOLEAN, path \in Paths : Construct(w, wide, path)
    \/ \E src \in WrapperIds, dst \in WrapperIds : CopyConstruct(src, dst)
    \/ \E src \in WrapperIds, dst \in WrapperIds : CopyAssign(src, dst)
    \/ \E w \in WrapperIds : Destroy(w)
    \/ \E w \in WrapperIds, name \in Symbols : get_symbol(w, name)

Spec == Init /\ [][Next]_vars

\* --------------------------------------- two constructor calls, interleaved
\* Each thread runs SharedObjectLoader(LPCSTR) one OS call at a time.
Threads == {1, 2}

ConcPaths == PathsUpTo(MaxConcLen)

Other(t) == 3 - t

InitConc ==
    /\ dllDir \in InitDirs
    /\ initDir = dllDir
    /\ serialized \in BOOLEAN
    /\ tpath \in {pp \in [Threads -> ConcPaths] : pp[1] # pp[2]}
    /\ tpc = [t \in Threads |-> "idle"]
    /\ tlen = [t \in Threads |-> 0]
    /\ told = [t \in Threads |-> <<>>]
    /\ texpect = [t \in Threads |-> <<>>]
    /\ badLoad = FALSE
    /\ lastError = 0
    /\ alive = {}
    /\ shared_object = [w \in WrapperIds |-> 0]
    /\ freeCalls = [h \in 0..MaxConstructs |-> 0]
    /\ staleUse = FALSE
    /\ nConstructs = 0
    /\ loaded = {}
    /\ nCopies = 0
    /\ exclSets = 0
    /\ lastOp = NoOp

Goto(t, from, to) ==
    /\ tpc[t] = from
    /\ tpc' = [tpc EXCEPT ![t] = to]

\* The caller enters the constructor; serializing callers wait for the other
\* call to be over.
Enter(t) ==
    /\ Goto(t, "idle", "excl_get")
    /\ serialized => tpc[Other(t)] \in {"idle", "done"}
    /\ UNCHANGED <<dllDir, tlen, told, texpect, badLoad>>

\* ExcludeCurrentDirectory: GetDllDirectory(0, NULL)
ExclGet(t) ==
    /\ Goto(t, "excl_get", "excl_set")
    /\ tlen' = [tlen EXCEPT ![t] = GetDllDirectoryLen(dllDir)]
    /\ UNCHANGED <<dllDir, told, texpect, badLoad>>

\* ExcludeCurrentDirectory: if (... <= 1) SetDllDirectory("")
ExclSet(t) ==
    /\ Goto(t, "excl_set", "inc_len")
    /\ dllDir' = IF ExcludeNeeded(tlen[t]) THEN <<>> ELSE dllDir
    /\ UNCHANGED <<tlen, told, texpect, badLoad>>

\* IncludePluginDirectoryA: nBufferLength = GetDllDirectoryW(0, nullptr)
IncLen(t) ==
    /\ Goto(t, "inc_len", "inc_get")
    /\ tlen' = [tlen EXCEPT ![t] = GetDllDirectoryLen(dllDir)]
    /\ UNCHANGED <<dllDir, told, texpect, badLoad>>

\* IncludePluginDirectoryA: GetDllDirectoryA(nBufferLength, &lpBuffer.front())
IncGet(t) ==
    /\ Goto(t, "inc_get", "inc_set")
    /\ told' = [told EXCEPT ![t] = GetDllDirectoryBuf(tlen[t], dllDir)]
    /\ UNCHANGED <<dllDir, tlen, texpect, badLoad>>

\* IncludePluginDirectoryA: if (!dirname.empty()) SetDllDirectoryA(dirname)
IncSet(t) ==
    /\ Goto(t, "inc_set", "load")
    /\ dllDir' = InstallDirname(GetDirnameA(tpath[t]), dllDir)
    /\ texpect' = [texpect EXCEPT ![t] = dllDir']
    /\ UNCHANGED <<tlen, told, badLoad>>

\* shared_object = LoadLibraryA(pluginName)
Load(t) ==
    /\ Goto(t, "load", "restore")
    /\ badLoad' = (badLoad \/ dllDir # texpect[t])
    /\ UNCHANGED <<dllDir, tlen, told, texpect>>

\* SetDllDirectoryA(oldDir.c_str()), then the constructor returns or throws.
Restore(t) ==
    /\ Goto(t, "restore", "done")
    /\ dllDir' = RestoredDirectory(told[t], dllDir)
    /\ UNCHANGED <<tlen, told, texpect, badLoad>>

ThreadStep(t) ==
    \/ Enter(t)
    \/ ExclGet(t)
    \/ ExclSet(t)
    \/ IncLen(t)
    \/ IncGet(t)
    \/ IncSet(t)
    \/ Load(t)
    \/ Restore(t)

NextConc ==
    /\ \E t \in Threads : ThreadStep(t)
    /\ UNCHANGED <<lastError, initDir, serialized, tpath>>
    /\ UNCHANGED progVars

SpecConc == InitConc /\ [][NextConc]_vars

\* ------------------------------------------------------------------ claims
\* Index of the last path separator of path, 0 when it has none.
LastSeparator(path) ==
    LET seps == {i \in 1..Len(path) : path[i] = kPathSeparator}
    IN  IF seps = {} THEN 0 ELSE CHOOSE i \in seps : \A j \in seps : j <= i

\* The prefix of path before its last separator; empty without a separator.
ParentDirectory(path) ==
    IF LastSeparator(path) = 0 THEN <<>>
    ELSE SubSeq(path, 1, LastSeparator(path) - 1)

RECURSIVE SumFreeCalls(_)
SumFreeCalls(n) == IF n = 0 THEN 0 ELSE freeCalls[n] + SumFreeCalls(n - 1)

\* FreeLibrary calls made with a non-null handle.
TotalFreeCalls == SumFreeCalls(MaxConstructs)

UnsetOrEmpty(dir) == dir \in {NullDir, <<>>}

\* C1: for both constructors, the search directory in effect when LoadLibrary
\* is invoked is the prefix of the path before its LAST separator; when that
\* prefix is empty the directory is left as the exclusion step left it.
C1_LoadDirIsParentOfPath ==
    lastOp.op = "Construct" =>
        lastOp.loadDir = IF ParentDirectory(lastOp.path) = <<>>
                         THEN lastOp.dirExcl
                         ELSE ParentDirectory(lastOp.path)

C3_FailsIffNullHandle ==
    /\ lastOp.op = "Construct" =>
          /\ lastOp.threw <=> lastOp.handle = 0
          /\ lastOp.threw => lastOp.w \notin alive
          /\ ~lastOp.threw => lastOp.w \in alive
    /\ freeCalls[0] = 0

C3_Witness ==
    /\ lastOp.op = "Construct"
    /\ lastOp.threw
    /\ lastOp.handle = 0
    /\ lastOp.w \notin alive
    /\ alive # {}

\* C4: the code a failing Construct reports is the non-zero code the failed
\* LoadLibrary set.
C4_ReportedCodeIsLoadError ==
    (lastOp.op = "Construct" /\ lastOp.threw) =>
        (lastOp.code = lastOp.osErr /\ lastOp.code # 0)

\* C5: every handle a successful load returned is passed to FreeLibrary at
\* most once, exactly once when no wrapper is left, and never used after its
\* release.
C5_ReleasedExactlyOnce ==
    /\ \A h \in loaded : freeCalls[h] <= 1
    /\ alive = {} =>
          /\ \A h \in loaded : freeCalls[h] = 1
          /\ TotalFreeCalls = Cardinality(loaded)
    /\ ~staleUse

\* C6: get_symbol ends in one of three ways: the lookup error for a null
\* handle, without GetProcAddress being called; the symbol-not-found error
\* carrying the last-error code when GetProcAddress returned null; else the
\* non-null address GetProcAddress returned.  The wrappers, their handles and
\* the search directory are as before the call.
C6_ResolveOutcomes ==
    [][lastOp'.op = "get_symbol" =>
          LET r == lastOp'
              h == shared_object[r.w]
          IN  /\ r.w \in alive
              /\ r.handle = h
              /\ \/ h = 0 /\ ~r.called /\ r.outcome = "LookupError"
                 \/ /\ h # 0 /\ r.called /\ r.addr = 0
                    /\ r.outcome = "SymbolNotFound"
                    /\ r.code = lastError' /\ r.code # 0
                 \/ h # 0 /\ r.called /\ r.addr # 0 /\ r.outcome = "Address"
              /\ shared_object' = shared_object
              /\ alive' = alive
              /\ dllDir' = dllDir
              /\ freeCalls' = freeCalls]_vars

C6_Witness ==
    /\ lastOp.op = "get_symbol"
    /\ lastOp.outcome = "SymbolNotFound"
    /\ lastOp.name = "missing"
    /\ lastOp.code = 127
    /\ dllDir = <<"d">>

\* C7: from the first Construct call on, the search directory is never unset:
\* neither the redirect nor the restore step brings NULL back.
C7_CurrentDirectoryStaysExcluded ==
    nConstructs > 0 => dllDir # NullDir

C7_Witness ==
    /\ initDir = NullDir
    /\ nConstructs >= 2
    /\ lastOp.op = "Construct"
    /\ lastOp.threw
    /\ lastOp.dirBefore = <<>>
    /\ dllDir = <<>>

\* C9: every existing wrapper holds a non-null handle, get_symbol never ends
\* in the lookup error, and FreeLibrary is never passed the null handle.
C9_HandleNeverNull ==
    /\ \A w \in alive : shared_object[w] # 0
    /\ lastOp.outcome # "LookupError"
    /\ freeCalls[0] = 0
    /\ lastOp.op = "Destroy" => lastOp.handle # 0

C9_Witness ==
    /\ lastOp.op = "Destroy"
    /\ lastOp.handle # 0
    /\ alive # {}
    /\ \A w \in alive : shared_object[w] # 0
    /\ nConstructs >= 2

\* C10 as stated: in a process that starts with no configured directory the
\* exclusion step issues SetDllDirectory("") in at most one Construct call,
\* and never when a non-empty directory is configured.
C10_ExclusionIssuedOnce ==
    /\ UnsetOrEmpty(initDir) => exclSets <= 1
    /\ (lastOp.op = "Construct" /\ ~UnsetOrEmpty(lastOp.dirBefore)) => ~lastOp.exclSet

\* C10 as amended: the exclusion step of a Construct call issues
\* SetDllDirectory("") exactly when it finds the directory unset or empty, so
\* in a process that starts without a configured directory every Construct
\* call issues it; it never does when a non-empty directory is configured.
C10_ExclusionIssuedWhenUnsetOrEmpty ==
    /\ lastOp.op = "Construct" =>
          (lastOp.exclSet <=> UnsetOrEmpty(lastOp.dirBefore))
    /\ UnsetOrEmpty(initDir) => exclSets = nConstructs
    /\ ~UnsetOrEmpty(initDir) => exclSets = 0

C10_Witness ==
    /\ initDir = NullDir
    /\ exclSets >= 2
    /\ lastOp.op = "Construct"
    /\ lastOp.exclSet
    /\ lastOp.dirBefore = <<>>

\* The directory GetDllDirectory reports for the process's starting state.
ReportedInitDir == GetDllDirectoryBuf(GetDllDirectoryLen(initDir), initDir)

BothDone == \A t \in Threads : tpc[t] = "done"

====
